---- MODULE Spec2Model ----
(***************************************************************************)
(* Download statistics of dutchakdev/cobalt:                               *)
(*   api/src/store/stats-store.js  class StatsStore (the aggregator)       *)
(*   api/src/core/stats.js         initStatsStore, recordDownload,         *)
(*                                 handleStatsRequest                      *)
(* Both files hold several revisions one after the other. The model is of  *)
(* the last ("hardened") revision of each: stats-store.js lines 153-354    *)
(* and stats.js lines 179-332.                                             *)
(*                                                                         *)
(* The key-value adapter (store.js) is not part of the sources: it is the  *)
(* environment. Each has/get/set is one atomic step that either takes      *)
(* effect or throws, as the variable `health` says at that moment; values  *)
(* are copied in and out (a serialising backend), and every StatsStore     *)
(* constructed under the name 'stats' sees the same three keys.            *)
(*                                                                         *)
(* JavaScript runs a task without interruption between two awaits, so an   *)
(* action is: the effect of the awaited backend operation, followed by the *)
(* synchronous code up to the next backend operation.                      *)
(***************************************************************************)
EXTENDS Integers, Sequences, FiniteSets, TLC

\* ---------------------------------------------------------------- bounds
MaxCalls == 3        \* calls started in one behaviour
MaxNow == 2          \* last instant of the clock
TicksPerDay == 2     \* clock instants in a day
DaysPerMonth == 2    \* days in a calendar month of the model
MonthsPerYear == 2   \* months in a calendar year of the model
MaxOutages == 1      \* times the backend goes down in one behaviour
TZMax == 1           \* largest offset of local time from UTC, in instants

\* getDownloadsThisWeek: weekAgo.setDate(today.getDate() - 7)
WeekDays == 7

Calls == 1..2                       \* call slots: at most two calls in flight
Instants == 0..MaxNow
TZOffsets == (0 - TZMax)..TZMax

\* Dates of the buckets an earlier run may have left: eight and seven days
\* before the first day of the clock, six days before it, the day before
\* it, that day and the next.
HistDates == {(0 - WeekDays) - 1, 0 - WeekDays, 1 - WeekDays, 0 - 1, 0, 1}

\* The count such a bucket holds: a different power of two per date, so that
\* a sum of buckets tells which buckets were summed.
RECURSIVE Pow2(_)
Pow2(n) == IF n = 0 THEN 1 ELSE 2 * Pow2(n - 1)

HistCount(d) == Pow2(Cardinality({x \in HistDates : x < d}))

Histograms == {[d \in S |-> HistCount(d)] : S \in SUBSET HistDates}

\* The three keys of the persisted layout.
KeyTotal == "totalDownloads"
KeyDaily == "dailyStats"
KeySocial == "socialMediaStats"
Keys == {KeyTotal, KeyDaily, KeySocial}

\* Source labels a caller passes. NoSource is null / an omitted argument;
\* "" is the empty string; "constructor" names a property every plain
\* object inherits from Object.prototype.
NoSource == "<null>"
Labels == {"tiktok", "constructor"}
Sources == {NoSource, ""} \cup Labels
ProtoKeys == {"constructor"}

\* The value of Number(function)+1 and of undefined+1: not a number.
NaN == 0 - 1

EmptyMap == [k \in {} |-> 0]

\* Authorization headers of a request, as sequences of characters.
NoHeader == <<"<absent>">>
ApiKeyPrefix == <<"A", "P", "I", "-", "K", "e", "y", " ">>
Headers ==
  { NoHeader,
    <<>>,
    ApiKeyPrefix \o <<"k">>,
    <<"A", "P", "I", "-", "K", "e", "y">>,
    <<"B", "e", "a", "r", "e", "r", " ", "k">> }

VARIABLES
  store,       \* the backend: which keys exist and their values
  health,      \* "up": backend operations succeed; "down": they throw
  statsStore,  \* the module-level singleton: "undefined", "null" or "set"
  now,         \* the clock: the instant new Date() returns
  tz,          \* the process-local time-zone offset from UTC, in instants
  env,         \* [apiKeyURL, authRequired] of the configuration
  overlap,     \* whether the callers let calls overlap
  calls,       \* per call slot: operation, position, locals, result
  floating,    \* the unawaited initializeStats() the constructor started
  hist         \* history: what was called and what failed so far

vars == <<store, health, statsStore, now, tz, env, overlap, calls, floating, hist>>

\* ------------------------------------------------------------ JavaScript
\* socialMedia is used as a condition: null, undefined and "" are falsy.
TruthyNotNull(src) == src # NoSource

Truthy(src) == src # NoSource /\ src # ""

\* obj[k] = 1 in place of the increment.
BumpToOne(m, k, inherited) == [x \in DOMAIN m \cup {k} |-> IF x = k THEN 1 ELSE m[x]]

\* obj[k]++ after "if (!obj[k]) obj[k] = 0", on a plain object.
\* An own count n >= 1 becomes n + 1. An own 0 or NaN is falsy and is reset:
\* it becomes 1. A missing key is undefined, reset, 1 - unless the name is
\* inherited from Object.prototype: then obj[k] is a function, truthy, not
\* reset, and function++ stores NaN.
Bump(m, k, inherited) ==
  IF k \in DOMAIN m
    THEN [m EXCEPT ![k] = IF m[k] >= 1 THEN m[k] + 1 ELSE 1]
    ELSE [x \in DOMAIN m \cup {k} |->
            IF x # k THEN m[x] ELSE IF inherited THEN NaN ELSE 1]

\* new Date().toISOString().split('T')[0]: the UTC calendar date of an
\* instant; dates are numbered from the epoch.
DateKey(t) == t \div TicksPerDay

\* new Date("YYYY-MM-DD"): the instant of UTC midnight of that date.
ParseDate(d) == d * TicksPerDay

\* getMonth() and getFullYear() are local-time: the date of t + tz.
LocalDay(t) == (t + tz) \div TicksPerDay
GetMonth(t) == (LocalDay(t) \div DaysPerMonth) % MonthsPerYear
GetFullYear(t) == LocalDay(t) \div (DaysPerMonth * MonthsPerYear)

\* weekAgo = new Date(today); weekAgo.setDate(today.getDate() - 7):
\* the same local time of day, seven calendar days earlier.
WeekAgo(t) == t - WeekDays * TicksPerDay

\* History: one more call counted under key k.
Tally(m, k) ==
  [x \in DOMAIN m \cup {k} |->
     IF x = k THEN (IF k \in DOMAIN m THEN m[k] + 1 ELSE 1) ELSE m[x]]

RECURSIVE SumOver(_, _)
SumOver(m, ks) ==
  IF ks = {} THEN 0
  ELSE LET k == CHOOSE x \in ks : TRUE IN m[k] + SumOver(m, ks \ {k})

\* ------------------------------------------------- the backend (store.js)
Up == health = "up"

\* set(key, value)
StoreSet(k, v) ==
  CASE k = KeyTotal -> [store EXCEPT !.has = @ \cup {k}, !.total = v]
    [] k = KeyDaily -> [store EXCEPT !.has = @ \cup {k}, !.daily = v]
    [] k = KeySocial -> [store EXCEPT !.has = @ \cup {k}, !.social = v]

\* has(key)
StoreHas(k) == k \in store.has

EmptyStore == [has |-> {}, total |-> 0, daily |-> EmptyMap, social |-> EmptyMap]

\* ------------------------------------------ StatsStore (stats-store.js)
\* hasKey: a has() that throws is reported as "the key does not exist".
HasKey(k, ok) == ok /\ StoreHas(k)

\* getTotalDownloads: await get('totalDownloads') || 0, and 0 when get throws.
GetTotalDownloadsSentinel(ok) ==
  IF ~ok THEN NaN
  ELSE IF StoreHas(KeyTotal) /\ store.total # 0 THEN store.total ELSE 0

GetTotalDownloads(ok) ==
  IF ok /\ StoreHas(KeyTotal) /\ store.total # 0 THEN store.total ELSE 0

\* getDailyStats: await get('dailyStats') || {}, and {} when get throws.
GetDailyStats(ok) ==
  IF ok /\ StoreHas(KeyDaily) THEN store.daily ELSE EmptyMap

\* getSocialMediaStats
GetSocialMediaStats(ok) ==
  IF ok /\ StoreHas(KeySocial) THEN store.social ELSE EmptyMap

\* getDownloadsToday: dailyStats[today] || 0, today the UTC date of now.
GetDownloadsToday(ok) ==
  LET d == GetDailyStats(ok)
      k == DateKey(now)
  IN IF k \in DOMAIN d /\ d[k] # 0 THEN d[k] ELSE 0

\* getDownloadsThisWeek: the buckets with weekAgo <= new Date(key) <= today.
InWeekStrict(k, t) == ParseDate(k) > WeekAgo(t) /\ ParseDate(k) < t

InWeek(k, t) == ParseDate(k) >= WeekAgo(t) /\ ParseDate(k) <= t

GetDownloadsThisWeek(ok) ==
  LET d == GetDailyStats(ok)
  IN SumOver(d, {k \in DOMAIN d : InWeek(k, now)})

\* getDownloadsThisMonth: the buckets whose parsed date has today's local
\* month and year.
InMonth(k, t) ==
  /\ GetMonth(ParseDate(k)) = GetMonth(t)
  /\ GetFullYear(ParseDate(k)) = GetFullYear(t)

GetDownloadsThisMonth(ok) ==
  LET d == GetDailyStats(ok)
  IN SumOver(d, {k \in DOMAIN d : InMonth(k, now)})

\* recordDownload, line 210: set('totalDownloads', totalDownloads + 1)
IncrementTotalTwice(t) == t + 2

IncrementTotalLost(t) == t

IncrementTotal(t) == t + 1

\* initializeStats: per key, hasKey and, if it says no, set the zero value.
\* A set that throws ends the whole call (the catch of line 184).
InitPcs == {"has_total", "zero_total", "has_daily", "zero_daily",
            "has_social", "zero_social"}

InitNextPc(pc, ok) ==
  CASE pc = "has_total" -> IF HasKey(KeyTotal, ok) THEN "has_daily" ELSE "zero_total"
    [] pc = "zero_total" -> IF ok THEN "has_daily" ELSE "end"
    [] pc = "has_daily" -> IF HasKey(KeyDaily, ok) THEN "has_social" ELSE "zero_daily"
    [] pc = "zero_daily" -> IF ok THEN "has_social" ELSE "end"
    [] pc = "has_social" -> IF HasKey(KeySocial, ok) THEN "end" ELSE "zero_social"
    [] pc = "zero_social" -> "end"

InitNextStore(pc, ok) ==
  CASE pc = "zero_total" /\ ok -> StoreSet(KeyTotal, 0)
    [] pc = "zero_daily" /\ ok -> StoreSet(KeyDaily, EmptyMap)
    [] pc = "zero_social" /\ ok -> StoreSet(KeySocial, EmptyMap)
    [] OTHER -> store

\* new StatsStore(): new Store(name) may throw; otherwise the instance exists
\* and its constructor has started an initializeStats() nobody awaits.
NewStatsStore(ctorOk) == IF ctorOk THEN "set" ELSE "threw"

\* The class has no member isAvailable: statsStore.isAvailable is undefined.
HasIsAvailable == FALSE

\* ----------------------------------------------------- core/stats.js
\* initStatsStore, lines 189-200: a constructor that throws is caught and
\* null is returned.
InitStatsStore(ctorOk) ==
  LET r == NewStatsStore(ctorOk) IN IF r = "threw" THEN "null" ELSE r

\* recordDownload, lines 208-211, inside the function's try: the value
\* assigned to statsStore, or "threw" for an exception that leaves the function.
WriteLazyInitUnguarded(ctorOk) == NewStatsStore(ctorOk)

WriteLazyInit(ctorOk) == InitStatsStore(ctorOk)

\* recordDownload, line 213:
\*   statsStore && statsStore.isAvailable && statsStore.isAvailable()
WriteGate(ss) == ss = "set" /\ HasIsAvailable

\* handleStatsRequest, lines 241-249: the same, in a try of its own.
ReadLazyInitUnguarded(ctorOk) == NewStatsStore(ctorOk)

ReadLazyInit(ctorOk) == InitStatsStore(ctorOk)

\* handleStatsRequest, line 252:
\*   !statsStore || (statsStore.isAvailable && !statsStore.isAvailable())
ReadUnavailable(ss) == ss # "set"

\* handleStatsRequest, lines 253-263: what is answered without a store.
UnavailableAnswerError == "error.api.generic"

UnavailableAnswer == "success"

\* String.prototype.startsWith
StartsWith(h, p) == Len(h) >= Len(p) /\ SubSeq(h, 1, Len(p)) = p

\* handleStatsRequest, lines 229-231: the gate is on, and the header is
\* missing, empty or does not start with 'API-Key '.
AuthMissingAbsentOnly(h) ==
  env.apiKeyURL /\ env.authRequired /\ h = NoHeader

AuthMissing(h) ==
  /\ env.apiKeyURL /\ env.authRequired
  /\ (h = NoHeader \/ h = <<>> \/ ~StartsWith(h, ApiKeyPrefix))

ZeroAcc ==
  [totalDownloads |-> 0, downloadsToday |-> 0, downloadsThisWeek |-> 0,
   downloadsThisMonth |-> 0, socialMediaStats |-> EmptyMap]

\* ------------------------------------------------------------- the state
IdleCall ==
  [op |-> "idle", pc |-> "idle", src |-> NoSource, gated |-> FALSE,
   wt |-> 0, today |-> 0, wd |-> EmptyMap, ws |-> EmptyMap,
   acc |-> ZeroAcc, ret |-> "none", resp |-> "none", nresp |-> 0,
   touched |-> FALSE, allUp |-> TRUE, allDown |-> TRUE, stable |-> TRUE,
   seen |-> {}, before |-> EmptyStore,
   failed |-> FALSE, at |-> "none", rt |-> NaN, val |-> [g |-> "none", n |-> 0, m |-> EmptyMap]]

Running(c) == calls[c].op # "idle" /\ calls[c].pc # "done"
FloatingRuns == floating \in InitPcs
Quiet == ~FloatingRuns /\ \A c \in Calls : ~Running(c)

\* A caller starts a call in the first free slot; callers that do not
\* overlap calls wait until nothing is in flight.
CanStart(c) ==
  /\ hist.started < MaxCalls
  /\ ~Running(c)
  /\ \A b \in Calls : b < c => Running(b)
  /\ overlap \/ Quiet

Fresh(op) ==
  [IdleCall EXCEPT !.op = op, !.before = store,
                   !.allUp = Up, !.allDown = ~Up]

Started == [hist EXCEPT !.started = @ + 1]

\* History: the call has constructed the aggregator or issued a backend operation.
Op(call) == [call EXCEPT !.touched = TRUE]

\* History: the call has issued a backend operation, which threw if the
\* backend is down.
Did(call) == [Op(call) EXCEPT !.failed = @ \/ ~Up]

GetterPcs == {"g_total", "g_today", "g_week", "g_month", "g_social"}
AggGetPcs == {"a_total", "a_daily", "a_social"}
RecordPcs == {"get_total", "set_total", "get_daily", "set_daily",
              "get_social", "set_social"}

\* History: the store or the clock has changed since a handleStatsRequest
\* began to read its five aggregates.
Disturb(cs, changed) ==
  [c \in Calls |->
     IF changed /\ cs[c].op = "read"
       THEN [cs[c] EXCEPT !.stable = FALSE] ELSE cs[c]]

CtorOutcomes == IF Up THEN {TRUE} ELSE BOOLEAN

\* The store once initializeStats() has run to its end on a healthy backend.
ZeroStore == [has |-> Keys, total |-> 0, daily |-> EmptyMap, social |-> EmptyMap]

\* What an earlier run of the process has left in a persistent backend.
\* Three downloads, two of them labelled, two of them the day before.
PersistedStore ==
  [has |-> Keys, total |-> 3,
   daily |-> [d \in {0 - 1, 0} |-> IF d = 0 THEN 1 ELSE 2],
   social |-> [l \in {"tiktok"} |-> 2]]

\* The process has just started, nothing constructed, on an empty backend or
\* on what an earlier run left; or its start-up has already called
\* initStatsStore() on an empty backend and both initialisations are over.
InitProcess ==
  /\ \/ store = EmptyStore /\ statsStore = "undefined" /\ floating = "none"
     \/ store = PersistedStore /\ statsStore = "undefined" /\ floating = "none"
     \/ store = ZeroStore /\ statsStore = "set" /\ floating = "end"
  /\ health = "up"
  /\ now = 0
  /\ overlap = FALSE
  /\ calls = [c \in Calls |-> IdleCall]
  /\ hist = [started |-> 0, outages |-> 0, recs |-> 0,
             onDate |-> EmptyMap, bySrc |-> EmptyMap,
             fresh |-> store # PersistedStore]

\* The write side: the read endpoint is not called, so the authentication
\* settings are not read.
Init ==
  /\ InitProcess
  /\ tz = 0
  /\ env = [apiKeyURL |-> FALSE, authRequired |-> FALSE]

\* The read side: any authentication settings.
InitRead ==
  /\ InitProcess
  /\ tz = 0
  /\ env \in [apiKeyURL : BOOLEAN, authRequired : BOOLEAN]

\* The dates: the aggregator exists and is initialised, the backend never
\* fails, and the store holds any of the histograms, at any instant of the
\* clock, in any time zone.
InitDates ==
  /\ \E h \in Histograms :
       store = [has |-> Keys, total |-> SumOver(h, DOMAIN h),
                daily |-> h, social |-> EmptyMap]
  /\ statsStore = "set" /\ floating = "end"
  /\ health = "up"
  /\ now \in Instants
  /\ tz \in TZOffsets
  /\ env = [apiKeyURL |-> FALSE, authRequired |-> FALSE]
  /\ overlap = FALSE
  /\ calls = [c \in Calls |-> IdleCall]
  /\ hist = [started |-> 0, outages |-> 0, recs |-> 0,
             onDate |-> EmptyMap, bySrc |-> EmptyMap, fresh |-> FALSE]

\* The first calls: nothing is constructed yet, the backend is empty and
\* never fails, and the callers let calls overlap.
InitRace ==
  /\ store = EmptyStore /\ statsStore = "undefined" /\ floating = "none"
  /\ health = "up"
  /\ now = 0
  /\ tz = 0
  /\ env = [apiKeyURL |-> FALSE, authRequired |-> FALSE]
  /\ overlap = TRUE
  /\ calls = [c \in Calls |-> IdleCall]
  /\ hist = [started |-> 0, outages |-> 0, recs |-> 0,
             onDate |-> EmptyMap, bySrc |-> EmptyMap, fresh |-> TRUE]

\* Overlapping downloads: the aggregator exists and is initialised, the
\* backend never fails, and the callers let calls overlap.
InitOverlap ==
  /\ store = ZeroStore /\ statsStore = "set" /\ floating = "end"
  /\ health = "up"
  /\ now = 0
  /\ tz = 0
  /\ env = [apiKeyURL |-> FALSE, authRequired |-> FALSE]
  /\ overlap = TRUE
  /\ calls = [c \in Calls |-> IdleCall]
  /\ hist = [started |-> 0, outages |-> 0, recs |-> 0,
             onDate |-> EmptyMap, bySrc |-> EmptyMap, fresh |-> TRUE]

\* ------------------------------------------------------------ the actions
\* The clock advances.
Tick ==
  /\ now < MaxNow
  /\ now' = now + 1
  /\ calls' = Disturb(calls, TRUE)
  /\ UNCHANGED <<store, health, statsStore, tz, env, overlap, floating, hist>>

\* The backend goes down or comes back.
ToggleHealth ==
  /\ Up => hist.outages < MaxOutages
  /\ health' = IF Up THEN "down" ELSE "up"
  /\ hist' = [hist EXCEPT !.outages = IF Up THEN @ + 1 ELSE @]
  /\ calls' = [c \in Calls |->
                 IF Running(c)
                   THEN [calls[c] EXCEPT !.allUp = FALSE, !.allDown = FALSE]
                   ELSE calls[c]]
  /\ UNCHANGED <<store, statsStore, now, tz, env, overlap, floating>>

\* StatsStore.recordDownload, lines 235-240: the catch returns false.
AggRecordSwallows == "true"

AggRecordOnError == "false"

\* recordDownload of core/stats.js, lines 214 and 217-220: the aggregator's
\* result is returned; an exception becomes false.
WriteReturn(r) == IF r = "threw" THEN "false" ELSE r

Return(call, r) ==
  [call EXCEPT !.pc = "done",
               !.wt = 0, !.wd = EmptyMap, !.ws = EmptyMap,
               !.ret = IF call.op = "write" THEN WriteReturn(r) ELSE r]

\* res.status(status).json(body)
Respond(call, kind, acc) ==
  [call EXCEPT !.pc = "done", !.resp = kind, !.nresp = @ + 1, !.acc = acc,
               !.ret = "returned"]

\* recordDownload of core/stats.js, lines 213-216, once statsStore is assigned.
WriteEnter(call, ss) ==
  IF WriteGate(ss) THEN [call EXCEPT !.pc = "get_total"]
  ELSE [call EXCEPT !.pc = "done", !.ret = "false"]

\* handleStatsRequest, lines 252-274, once statsStore is assigned.
ReadEnter(call, ss) ==
  IF ReadUnavailable(ss) THEN Respond(call, UnavailableAnswer, ZeroAcc)
  ELSE [call EXCEPT !.pc = "g_total", !.stable = TRUE]

\* What follows the awaited initializeStats() in each caller.
AfterInit(call, ss) ==
  CASE call.op = "write" -> WriteEnter(call, ss)
    [] call.op = "read" -> ReadEnter(call, ss)
    [] OTHER -> [call EXCEPT !.pc = "done", !.ret = "undefined"]

\* The lazy construction of lines 190-193, reached from either path with
\* statsStore unset: r is what the path's initialisation yields.
Construct(c, call, r) ==
  CASE r = "set" ->
         /\ statsStore' = "set"
         /\ floating' = "has_total"
         /\ calls' = [calls EXCEPT ![c] = Op([call EXCEPT !.pc = "has_total"])]
    [] r = "null" ->
         /\ statsStore' = "null"
         /\ floating' = floating
         /\ calls' = [calls EXCEPT ![c] = AfterInit(Op(call), "null")]
    [] r = "threw" ->
         /\ UNCHANGED <<statsStore, floating>>
         /\ calls' = [calls EXCEPT ![c] = [Op(call) EXCEPT !.pc = "done", !.ret = "threw"]]

\* The download pipeline calls recordDownload(src) of core/stats.js.
StartWrite(c, src) ==
  /\ CanStart(c)
  /\ hist' = Started
  /\ LET call == [Fresh("write") EXCEPT !.src = src] IN
       IF statsStore = "set"
         THEN /\ calls' = [calls EXCEPT ![c] = WriteEnter(call, statsStore)]
              /\ UNCHANGED <<statsStore, floating>>
         ELSE \E ctorOk \in CtorOutcomes : Construct(c, call, WriteLazyInit(ctorOk))
  /\ UNCHANGED <<store, health, now, tz, env, overlap>>

\* History: both settings are on and the request carries no Authorization
\* header that starts with 'API-Key '.
Gated(hdr) ==
  /\ env.apiKeyURL /\ env.authRequired
  /\ \/ hdr = NoHeader
     \/ Len(hdr) < Len(ApiKeyPrefix)
     \/ \E i \in 1..Len(ApiKeyPrefix) : hdr[i] # ApiKeyPrefix[i]

\* A request reaches handleStatsRequest.
StartRead(c, hdr) ==
  /\ CanStart(c)
  /\ hist' = Started
  /\ LET call == [Fresh("read") EXCEPT !.gated = Gated(hdr)] IN
       IF AuthMissing(hdr)
         THEN /\ calls' = [calls EXCEPT ![c] =
                             Respond(call, "error.api.auth.key.missing", ZeroAcc)]
              /\ UNCHANGED <<statsStore, floating>>
         ELSE IF statsStore = "set"
           THEN /\ calls' = [calls EXCEPT ![c] = ReadEnter(call, statsStore)]
                /\ UNCHANGED <<statsStore, floating>>
           ELSE \E ctorOk \in CtorOutcomes : Construct(c, call, ReadLazyInit(ctorOk))
  /\ UNCHANGED <<store, health, now, tz, env, overlap>>

\* A caller holding the aggregator calls its recordDownload(src).
StartAggRecord(c, src) ==
  /\ CanStart(c)
  /\ statsStore = "set"
  /\ hist' = [Started EXCEPT !.bySrc = Tally(@, src)]
  /\ calls' = [calls EXCEPT ![c] =
                 [Fresh("aggRecord") EXCEPT !.src = src, !.pc = "get_total"]]
  /\ UNCHANGED <<store, health, statsStore, now, tz, env, overlap, floating>>

\* A caller holding the aggregator calls its initializeStats().
StartAggInit(c) ==
  /\ CanStart(c)
  /\ statsStore = "set"
  /\ hist' = Started
  /\ calls' = [calls EXCEPT ![c] = [Fresh("aggInit") EXCEPT !.pc = "has_total"]]
  /\ UNCHANGED <<store, health, statsStore, now, tz, env, overlap, floating>>

\* One backend operation of an awaited initializeStats(), lines 168-188.
InitStep(c) ==
  /\ calls[c].pc \in InitPcs
  /\ LET pc == InitNextPc(calls[c].pc, Up)
         st == InitNextStore(calls[c].pc, Up)
         call == Did([calls[c] EXCEPT !.pc = pc])
     IN /\ store' = st
        /\ calls' = Disturb([calls EXCEPT ![c] =
                               IF pc = "end" THEN AfterInit(call, statsStore)
                               ELSE call],
                            st # store)
  /\ UNCHANGED <<health, statsStore, now, tz, env, overlap, floating, hist>>

\* One backend operation of the initializeStats() the constructor started.
FloatingInitStep ==
  /\ floating \in InitPcs
  /\ floating' = InitNextPc(floating, Up)
  /\ store' = InitNextStore(floating, Up)
  /\ calls' = Disturb(calls, store' # store)
  /\ UNCHANGED <<health, statsStore, now, tz, env, overlap, hist>>

\* recordDownload, lines 209-210: what is written is the total the call read
\* before its await, plus one - not the total the store holds by then.
TotalToWriteFresh(call) == IncrementTotal(GetTotalDownloads(TRUE))

TotalToWrite(call) == call.wt

\* One backend operation of StatsStore.recordDownload, lines 206-241.
RecordStep(c) ==
  /\ calls[c].pc \in RecordPcs
  /\ LET call == Did(calls[c])
         pc == call.pc
         done == [hist EXCEPT !.recs = IF call.op = "aggRecord" THEN @ + 1 ELSE @]
     IN
     CASE pc = "get_total" ->
            /\ calls' = [calls EXCEPT ![c] =
                 [call EXCEPT !.pc = "set_total", !.rt = GetTotalDownloads(Up),
                              !.wt = IncrementTotal(GetTotalDownloads(Up))]]
            /\ UNCHANGED <<store, hist>>
       [] pc = "set_total" /\ Up ->
            /\ store' = StoreSet(KeyTotal, TotalToWrite(call))
            /\ calls' = Disturb([calls EXCEPT ![c] =
                 [call EXCEPT !.pc = "get_daily", !.today = DateKey(now)]], TRUE)
            /\ hist' = [hist EXCEPT !.onDate = Tally(@, now \div TicksPerDay)]
       [] pc = "get_daily" ->
            /\ calls' = [calls EXCEPT ![c] =
                 [call EXCEPT !.pc = "set_daily",
                              !.wd = Bump(GetDailyStats(Up), call.today, FALSE)]]
            /\ UNCHANGED <<store, hist>>
       [] pc = "set_daily" /\ Up ->
            /\ store' = StoreSet(KeyDaily, call.wd)
            /\ IF Truthy(call.src)
                 THEN /\ calls' = Disturb([calls EXCEPT ![c] =
                                      [call EXCEPT !.pc = "get_social"]], TRUE)
                      /\ hist' = hist
                 ELSE /\ calls' = Disturb([calls EXCEPT ![c] = Return(call, "true")], TRUE)
                      /\ hist' = done
       [] pc = "get_social" ->
            /\ calls' = [calls EXCEPT ![c] =
                 [call EXCEPT !.pc = "set_social",
                              !.ws = Bump(GetSocialMediaStats(Up), call.src,
                                          call.src \in ProtoKeys)]]
            /\ UNCHANGED <<store, hist>>
       [] pc = "set_social" /\ Up ->
            /\ store' = StoreSet(KeySocial, call.ws)
            /\ calls' = Disturb([calls EXCEPT ![c] = Return(call, "true")], TRUE)
            /\ hist' = done
       [] OTHER ->
            \* a set that throws: the catch of line 235
            /\ calls' = [calls EXCEPT ![c] =
                 Return([call EXCEPT !.at = pc], AggRecordOnError)]
            /\ store' = store
            /\ hist' = done
  /\ UNCHANGED <<health, statsStore, now, tz, env, overlap, floating>>

\* A caller holding the aggregator calls getTotalDownloads(), getDailyStats()
\* or getSocialMediaStats().
StartAggGet(c, g) ==
  /\ CanStart(c)
  /\ statsStore = "set"
  /\ hist' = Started
  /\ calls' = [calls EXCEPT ![c] = [Fresh("aggGet") EXCEPT !.pc = g]]
  /\ UNCHANGED <<store, health, statsStore, now, tz, env, overlap, floating>>

\* The backend get of such a call, and its return.
AggGetStep(c) ==
  /\ calls[c].pc \in AggGetPcs
  /\ LET call == Did(calls[c])
         pc == call.pc
         got == [call EXCEPT !.pc = "done", !.ret = "returned", !.val.g = pc,
                             !.seen = IF Up THEN {pc} ELSE {}]
     IN calls' = [calls EXCEPT ![c] =
          CASE pc = "a_total" -> [got EXCEPT !.val.n = GetTotalDownloads(Up)]
            [] pc = "a_daily" -> [got EXCEPT !.val.m = GetDailyStats(Up)]
            [] pc = "a_social" -> [got EXCEPT !.val.m = GetSocialMediaStats(Up)]]
  /\ UNCHANGED <<store, health, statsStore, now, tz, env, overlap, floating, hist>>

\* handleStatsRequest, lines 266-317: each read has a try of its own, so
\* the answer is a success whichever reads failed.
ReadAnswerAllOrNothing(seen) ==
  IF seen = GetterPcs THEN "success" ELSE "error.api.generic"

ReadAnswer(seen) == "success"

\* Object.entries(socialMediaStats).reduce(...): a copy, entry by entry.
CopyEntries(m) == [k \in DOMAIN m |-> m[k]]

\* One of the five reads of handleStatsRequest, lines 266-317; the last one
\* is followed by the success response.
ReadStep(c) ==
  /\ calls[c].pc \in GetterPcs
  /\ LET call == Did(calls[c])
         pc == call.pc
         saw == IF Up THEN call.seen \cup {pc} ELSE call.seen
     IN calls' = [calls EXCEPT ![c] =
          CASE pc = "g_total" ->
                 [call EXCEPT !.pc = "g_today", !.seen = saw,
                              !.acc.totalDownloads = GetTotalDownloads(Up)]
            [] pc = "g_today" ->
                 [call EXCEPT !.pc = "g_week", !.seen = saw,
                              !.acc.downloadsToday = GetDownloadsToday(Up)]
            [] pc = "g_week" ->
                 [call EXCEPT !.pc = "g_month", !.seen = saw,
                              !.acc.downloadsThisWeek = GetDownloadsThisWeek(Up)]
            [] pc = "g_month" ->
                 [call EXCEPT !.pc = "g_social", !.seen = saw,
                              !.acc.downloadsThisMonth = GetDownloadsThisMonth(Up)]
            [] pc = "g_social" ->
                 Respond([call EXCEPT !.seen = saw], ReadAnswer(saw),
                         [call.acc EXCEPT !.socialMediaStats =
                            CopyEntries(GetSocialMediaStats(Up))])]
  /\ UNCHANGED <<store, health, statsStore, now, tz, env, overlap, floating, hist>>

\* A call with no label and one with an ordinary label.
ReadSources == {NoSource, "tiktok"}

\* The write side: the download pipeline and direct users of the aggregator.
Next ==
  \/ Tick
  \/ ToggleHealth
  \/ \E c \in Calls, src \in ReadSources : StartWrite(c, src)
  \/ \E c \in Calls, src \in Sources : StartAggRecord(c, src)
  \/ \E c \in Calls : StartAggInit(c)
  \/ \E c \in Calls : InitStep(c)
  \/ FloatingInitStep
  \/ \E c \in Calls : RecordStep(c)

Spec == Init /\ [][Next]_vars

\* The read side: requests to the read endpoint.
NextRead ==
  \/ Tick
  \/ ToggleHealth
  \/ \E c \in Calls, hdr \in Headers : StartRead(c, hdr)
  \/ \E c \in Calls : InitStep(c)
  \/ FloatingInitStep
  \/ \E c \in Calls : ReadStep(c)
  \/ \E c \in Calls, g \in AggGetPcs : StartAggGet(c, g)
  \/ \E c \in Calls : AggGetStep(c)

SpecRead == InitRead /\ [][NextRead]_vars

\* The dates: reads through the endpoint and unlabelled downloads, at a
\* fixed instant.
NextDates ==
  \/ \E c \in Calls : StartRead(c, NoHeader)
  \/ \E c \in Calls : ReadStep(c)
  \/ \E c \in Calls : StartAggRecord(c, NoSource)
  \/ \E c \in Calls : RecordStep(c)

SpecDates == InitDates /\ [][NextDates]_vars

\* The first calls: the lazy construction from either path, explicit
\* initialisations and downloads, interleaved in any way.
NextRace ==
  \/ \E c \in Calls : StartWrite(c, NoSource)
  \/ \E c \in Calls : StartRead(c, NoHeader)
  \/ \E c \in Calls : StartAggInit(c)
  \/ \E c \in Calls, src \in ReadSources : StartAggRecord(c, src)
  \/ \E c \in Calls : InitStep(c)
  \/ FloatingInitStep
  \/ \E c \in Calls : RecordStep(c)
  \/ \E c \in Calls : ReadStep(c)

SpecRace == InitRace /\ [][NextRace]_vars

\* Overlapping downloads through the aggregator, while the clock advances.
NextOverlap ==
  \/ Tick
  \/ \E c \in Calls, src \in ReadSources : StartAggRecord(c, src)
  \/ \E c \in Calls : RecordStep(c)

SpecOverlap == InitOverlap /\ [][NextOverlap]_vars

\* ------------------------------------------------------------- the claims
\* Nothing is in flight, no backend operation has failed so far, and the
\* aggregator exists with its initialisation over, on a backend that was
\* empty when the process started.
SettledHealthy ==
  Quiet /\ hist.outages = 0 /\ statsStore = "set" /\ hist.fresh

Today == now \div TicksPerDay

\* C1: on a backend whose operations all succeed, after n non-overlapping
\* StatsStore.recordDownload calls on a freshly initialised store,
\* getTotalDownloads() returns n, and getDailyStats() has under today's date
\* the number of those calls made on that date (no bucket if there were none).
C1_SequentialCounts ==
  SettledHealthy =>
    /\ GetTotalDownloads(TRUE) = hist.recs
    /\ LET d == GetDailyStats(TRUE) IN
         IF Today \in DOMAIN hist.onDate
           THEN Today \in DOMAIN d /\ d[Today] = hist.onDate[Today]
           ELSE Today \notin DOMAIN d

\* The scenario ["tiktok", null, "tiktok"] on one day.
C1_Witness ==
  /\ SettledHealthy
  /\ hist.recs = 3
  /\ hist.bySrc = [x \in {"tiktok", NoSource} |-> IF x = "tiktok" THEN 2 ELSE 1]
  /\ GetTotalDownloads(TRUE) = 3
  /\ GetDailyStats(TRUE) = [x \in {Today} |-> 3]
  /\ GetSocialMediaStats(TRUE) = [x \in {"tiktok"} |-> 2]

\* C2: on a backend whose operations all succeed, every call of
\* recordDownload(src) of core/stats.js returns true and leaves the stored
\* totalDownloads one greater than it was before the call.
C2_WriteRecords ==
  \A c \in Calls :
    (calls[c].op = "write" /\ calls[c].pc = "done" /\ hist.outages = 0) =>
      /\ calls[c].ret = "true"
      /\ store.total = calls[c].before.total + 1

\* C3: whatever fails in the backend, the constructor included, no exception
\* leaves recordDownload(src) of core/stats.js, and what it resolves to is a
\* boolean.
C3_WriteNeverThrows ==
  \A c \in Calls :
    calls[c].op = "write" =>
      /\ calls[c].ret \in {"none", "true", "false"}
      /\ calls[c].pc = "done" => calls[c].ret \in {"true", "false"}

\* A call during which the constructor threw.
C3_Witness ==
  \E c \in Calls :
    /\ calls[c].op = "write" /\ calls[c].pc = "done"
    /\ statsStore = "null"
    /\ calls[c].ret = "false"

\* C4: on a backend whose operations all succeed, after non-overlapping
\* StatsStore.recordDownload calls on a freshly initialised store,
\* getSocialMediaStats() has under every label the number of calls made with
\* that label, and no bucket for a label never passed.
C4_SocialCounts ==
  SettledHealthy =>
    LET s == GetSocialMediaStats(TRUE) IN
      \A src \in Sources :
        IF src \in Labels /\ src \in DOMAIN hist.bySrc
          THEN src \in DOMAIN s /\ s[src] = hist.bySrc[src]
          ELSE src \notin DOMAIN s

\* The same for the labels that name nothing a plain object inherits.
C4_OwnLabels ==
  SettledHealthy =>
    LET s == GetSocialMediaStats(TRUE) IN
      \A src \in Sources \ ProtoKeys :
        IF src \in Labels /\ src \in DOMAIN hist.bySrc
          THEN src \in DOMAIN s /\ s[src] = hist.bySrc[src]
          ELSE src \notin DOMAIN s

\* C5: a StatsStore.recordDownload call whose source is null, omitted or ""
\* never writes socialMediaStats - the key and its value stay as they were
\* when the call began - and, when its backend operations succeed, it leaves
\* totalDownloads and the bucket of its date one greater.
C5_NoSourceFrame ==
  \A c \in Calls :
    (calls[c].op = "aggRecord" /\ calls[c].src \in {NoSource, ""}) =>
      /\ store.social = calls[c].before.social
      /\ KeySocial \in store.has <=> KeySocial \in calls[c].before.has
      /\ (calls[c].pc = "done" /\ calls[c].allUp) =>
           /\ calls[c].ret = "true"
           /\ store.total = calls[c].before.total + 1
           /\ store.daily = Tally(calls[c].before.daily, calls[c].today)

\* Such a call, with the empty string, on a store that has a labelled bucket.
C5_Witness ==
  \E c \in Calls :
    /\ calls[c].op = "aggRecord" /\ calls[c].src = ""
    /\ calls[c].pc = "done" /\ calls[c].allUp
    /\ calls[c].before.total > 0
    /\ store.social # EmptyMap

\* What the store holds under a key.
Stored(st, k) ==
  CASE k = KeyTotal -> [total |-> st.total]
    [] k = KeyDaily -> [daily |-> st.daily]
    [] k = KeySocial -> [social |-> st.social]

Preserved(c) ==
  \A k \in calls[c].before.has :
    k \in store.has /\ Stored(store, k) = Stored(calls[c].before, k)

\* C6: in any state non-overlapping calls reach, initializeStats() - called
\* directly, or by the lazy construction, which runs it twice - leaves every
\* field the store already has as it is.
C6_InitPreserves ==
  \A c \in Calls :
    (calls[c].op = "aggInit" \/ (calls[c].op = "write" /\ calls[c].touched)) =>
      Preserved(c)

\* The same while no backend operation has failed.
C6_InitPreservesWhenHealthy ==
  \A c \in Calls :
    ( /\ calls[c].op = "aggInit" \/ (calls[c].op = "write" /\ calls[c].touched)
      /\ hist.outages = 0 ) =>
      Preserved(c)

\* C7: with env.apiKeyURL and env.authRequired both set and an Authorization
\* header that is absent or does not start with 'API-Key ',
\* handleStatsRequest answers error.api.auth.key.missing, once, and does
\* nothing with the store: it constructs no aggregator and issues no
\* backend operation.
C7_AuthGate ==
  \A c \in Calls :
    (calls[c].op = "read" /\ calls[c].gated) =>
      /\ calls[c].pc = "done"
      /\ calls[c].resp = "error.api.auth.key.missing"
      /\ calls[c].nresp = 1
      /\ ~calls[c].touched
      /\ store = calls[c].before

\* Such a request, arriving before anything constructed the aggregator.
C7_Witness ==
  \E c \in Calls :
    /\ calls[c].op = "read" /\ calls[c].gated
    /\ calls[c].resp = "error.api.auth.key.missing"
    /\ statsStore = "undefined" /\ floating = "none"

AuthNotRequired == ~(env.apiKeyURL /\ env.authRequired)

\* C8: when authentication is not required and every backend operation of
\* the request fails, the constructor and the lazy initialisation included,
\* handleStatsRequest answers the success envelope with the four counts 0
\* and socialMediaStats empty.
C8_AllFailingReadsZero ==
  \A c \in Calls :
    ( /\ calls[c].op = "read" /\ calls[c].pc = "done"
      /\ AuthNotRequired /\ calls[c].allDown ) =>
      /\ calls[c].resp = "success"
      /\ calls[c].acc = ZeroAcc

\* Such a request on a store that holds counts.
C8_Witness ==
  \E c \in Calls :
    /\ calls[c].op = "read" /\ calls[c].pc = "done"
    /\ AuthNotRequired /\ calls[c].allDown
    /\ calls[c].touched
    /\ calls[c].resp = "success"
    /\ store.total > 0 /\ store.social # EmptyMap

\* What each aggregate is when read from the store as it stands.
Expected ==
  [g_total |-> IF KeyTotal \in store.has THEN store.total ELSE 0,
   g_today |-> IF KeyDaily \in store.has /\ Today \in DOMAIN store.daily
                 THEN store.daily[Today] ELSE 0,
   g_week |-> GetDownloadsThisWeek(TRUE),
   g_month |-> GetDownloadsThisMonth(TRUE),
   g_social |-> IF KeySocial \in store.has THEN store.social ELSE EmptyMap]

Zero ==
  [g_total |-> 0, g_today |-> 0, g_week |-> 0, g_month |-> 0,
   g_social |-> EmptyMap]

Answered(c) ==
  [g_total |-> calls[c].acc.totalDownloads,
   g_today |-> calls[c].acc.downloadsToday,
   g_week |-> calls[c].acc.downloadsThisWeek,
   g_month |-> calls[c].acc.downloadsThisMonth,
   g_social |-> calls[c].acc.socialMediaStats]

\* C9: a handleStatsRequest that gets as far as its five reads answers the
\* success envelope whichever of them fail; each aggregate whose read
\* succeeded is what the store holds, each aggregate whose read failed is
\* 0 or empty. (Compared with the store when neither it nor the clock has
\* changed since the reads began.)
C9_PerFieldIsolation ==
  \A c \in Calls :
    ( /\ calls[c].op = "read" /\ calls[c].pc = "done"
      /\ ~calls[c].gated /\ statsStore = "set" ) =>
      /\ calls[c].resp = "success"
      /\ calls[c].stable =>
           \A g \in GetterPcs :
             Answered(c)[g] = IF g \in calls[c].seen THEN Expected[g] ELSE Zero[g]

\* The read of totalDownloads alone failed; the store holds counts, and the
\* answer carries the others.
C9_Witness ==
  \E c \in Calls :
    /\ calls[c].op = "read" /\ calls[c].pc = "done" /\ calls[c].stable
    /\ calls[c].seen = GetterPcs \ {"g_total"}
    /\ store.total > 0
    /\ calls[c].acc.totalDownloads = 0
    /\ calls[c].acc.downloadsToday > 0
    /\ calls[c].acc.downloadsThisWeek > 0
    /\ calls[c].acc.socialMediaStats # EmptyMap

\* C10: whatever the request and whatever fails in the backend, the
\* constructor and the lazy initialisation included, no exception leaves
\* handleStatsRequest; it never sends a second response; while it has not
\* returned it is waiting for one backend operation, and when it returns it
\* has sent exactly one response: the success envelope, or the error envelope
\* with error.api.auth.key.missing or error.api.generic.
C10_OneResponse ==
  \A c \in Calls :
    calls[c].op = "read" =>
      /\ calls[c].ret # "threw"
      /\ calls[c].nresp <= 1
      /\ calls[c].pc \in InitPcs \cup GetterPcs \cup {"done"}
      /\ calls[c].pc = "done" =>
           /\ calls[c].nresp = 1
           /\ calls[c].resp \in {"success", "error.api.auth.key.missing",
                                 "error.api.generic"}

\* A request during which the constructor threw, answered all the same.
C10_Witness ==
  \E c \in Calls :
    /\ calls[c].op = "read" /\ calls[c].pc = "done"
    /\ statsStore = "null"
    /\ calls[c].nresp = 1 /\ calls[c].resp = "success"

\* The calendar: the month and the year a date belongs to.
MonthOf(d) == (d \div DaysPerMonth) % MonthsPerYear
YearOf(d) == d \div (DaysPerMonth * MonthsPerYear)

\* The date of now in the process-local time zone.
LocalToday == (now + tz) \div TicksPerDay

\* A handleStatsRequest has answered, and neither the store nor the clock
\* has changed since it began to read.
ReadDone(c) ==
  calls[c].op = "read" /\ calls[c].pc = "done" /\ calls[c].stable
  /\ calls[c].seen = GetterPcs

BucketsIn(dates) == SumOver(store.daily, DOMAIN store.daily \cap dates)

\* C11: getDownloadsThisWeek() is the sum of the buckets dated from seven
\* days before today up to today, both included, whatever the time of day.
C11_WeekByCalendarDate ==
  \A c \in Calls :
    ReadDone(c) =>
      calls[c].acc.downloadsThisWeek = BucketsIn((Today - WeekDays)..Today)

\* The same, asked at the very first instant of a day.
C11_WeekAtMidnight ==
  \A c \in Calls :
    (ReadDone(c) /\ now % TicksPerDay = 0) =>
      calls[c].acc.downloadsThisWeek = BucketsIn((Today - WeekDays)..Today)

\* C12: getDownloadsThisMonth() is the sum of the buckets whose date is in
\* the calendar month and year of today's date.
C12_MonthByCalendar ==
  \A c \in Calls :
    ReadDone(c) =>
      calls[c].acc.downloadsThisMonth =
        BucketsIn({d \in DOMAIN store.daily :
                     MonthOf(d) = MonthOf(LocalToday) /\ YearOf(d) = YearOf(LocalToday)})

\* The same where local time is UTC.
C12_MonthAtUTC ==
  \A c \in Calls :
    (ReadDone(c) /\ tz = 0) =>
      calls[c].acc.downloadsThisMonth =
        BucketsIn({d \in DOMAIN store.daily :
                     MonthOf(d) = MonthOf(Today) /\ YearOf(d) = YearOf(Today)})

\* Every bucket is dated within the trailing seven days, and today's holds
\* something.
TrailingWeekOnly ==
  /\ DOMAIN store.daily \subseteq (Today - WeekDays)..Today
  /\ Today \in DOMAIN store.daily
  /\ store.daily[Today] > 0

\* C13: for such a histogram, a request answers a downloadsThisWeek that is
\* at least its downloadsToday.
C13_WeekAtLeastToday ==
  \A c \in Calls :
    (ReadDone(c) /\ TrailingWeekOnly) =>
      calls[c].acc.downloadsThisWeek >= calls[c].acc.downloadsToday

\* Such a request after midnight, with buckets seven days and one day old
\* besides today's.
C13_Witness ==
  \E c \in Calls :
    /\ ReadDone(c) /\ TrailingWeekOnly
    /\ now % TicksPerDay # 0
    /\ {Today - WeekDays, Today - 1} \subseteq DOMAIN store.daily
    /\ calls[c].acc.downloadsToday > 0
    /\ calls[c].acc.downloadsThisWeek > calls[c].acc.downloadsToday

\* C14: getTotalDownloads(), getDailyStats() and getSocialMediaStats() do
\* not throw and do not write; each returns what the store holds under its
\* key when the key is there and the read succeeds, and 0, {} and {}
\* otherwise.
C14_GetterDefaults ==
  \A c \in Calls :
    (calls[c].op = "aggGet" /\ calls[c].pc = "done") =>
      LET b == calls[c].before
          v == calls[c].val
          read == ~calls[c].failed
      IN /\ calls[c].ret = "returned"
         /\ store = b
         /\ v.g = "a_total" =>
              v.n = IF read /\ KeyTotal \in b.has THEN b.total ELSE 0
         /\ v.g = "a_daily" =>
              v.m = IF read /\ KeyDaily \in b.has THEN b.daily ELSE EmptyMap
         /\ v.g = "a_social" =>
              v.m = IF read /\ KeySocial \in b.has THEN b.social ELSE EmptyMap

\* getTotalDownloads() on a store that holds a count, while the backend is
\* down: 0, and the store as it was.
C14_Witness ==
  \E c \in Calls :
    /\ calls[c].op = "aggGet" /\ calls[c].pc = "done"
    /\ calls[c].val.g = "a_total" /\ calls[c].failed
    /\ calls[c].before.total > 0 /\ KeyTotal \in calls[c].before.has
    /\ calls[c].val.n = 0
    /\ store = calls[c].before

\* The positions of StatsStore.recordDownload after it has written dailyStats.
CountedPcs == {"get_social", "set_social", "done"}

\* C16: however the constructor's initialisation, the awaited and the
\* explicit initializeStats() calls and the recordDownload calls interleave,
\* what a recordDownload has written is not set back to zero: once it has
\* written the total, the total is at least 1; once it has written its
\* date's bucket, the bucket is there; once it has written its label's
\* bucket, that bucket is there.
C16_NoResetByInit ==
  \A c \in Calls :
    calls[c].op = "aggRecord" =>
      /\ calls[c].pc \in {"get_daily", "set_daily"} \cup CountedPcs =>
           store.total >= 1
      /\ calls[c].pc \in CountedPcs =>
           calls[c].today \in DOMAIN store.daily
      /\ (calls[c].pc = "done" /\ Truthy(calls[c].src)) =>
           calls[c].src \in DOMAIN store.social

\* C17: two recordDownload calls that have both read the same total before
\* either wrote it both return true, and the total they leave is one
\* greater than the one they read: one of the two increments is lost.
C17_LostUpdate ==
  \A c1, c2 \in Calls :
    ( /\ c1 # c2
      /\ calls[c1].op = "aggRecord" /\ calls[c1].pc = "done"
      /\ calls[c2].op = "aggRecord" /\ calls[c2].pc = "done"
      /\ calls[c1].rt = calls[c2].rt ) =>
      /\ calls[c1].ret = "true" /\ calls[c2].ret = "true"
      /\ store.total = calls[c1].rt + 1

\* Two overlapping downloads with the same label, on the same day, from
\* the zero store: total, bucket of the day and bucket of the label are 1.
C17_Witness ==
  \E c1, c2 \in Calls :
    /\ c1 # c2
    /\ calls[c1].op = "aggRecord" /\ calls[c1].pc = "done" /\ calls[c1].ret = "true"
    /\ calls[c2].op = "aggRecord" /\ calls[c2].pc = "done" /\ calls[c2].ret = "true"
    /\ calls[c1].src = "tiktok" /\ calls[c2].src = "tiktok"
    /\ hist.recs = 2 /\ hist.started = 2
    /\ calls[c1].before.total = 0 /\ calls[c2].before.total = 0
    /\ store.total = 1
    /\ store.daily = [d \in {Today} |-> 1]
    /\ store.social = [l \in {"tiktok"} |-> 1]

\* C18: whenever nothing is in flight, after non-overlapping initializeStats
\* and recordDownload calls on a backend that was empty and never failed,
\* over several days, totalDownloads is the sum of the buckets of dailyStats.
C18_TotalIsSumOfDaily ==
  SettledHealthy =>
    GetTotalDownloads(TRUE) =
      SumOver(GetDailyStats(TRUE), DOMAIN GetDailyStats(TRUE))

\* Three downloads over two days: one on the first, two on the second.
C18_Witness ==
  /\ SettledHealthy
  /\ hist.recs = 3
  /\ store.total = 3
  /\ store.daily = [d \in {0, 1} |-> IF d = 0 THEN 1 ELSE 2]
  /\ \E c \in Calls : calls[c].op = "aggRecord" /\ calls[c].pc = "done"

\* One step leaves the counters where they were or higher: the total does
\* not decrease, and no bucket of dailyStats or socialMediaStats goes away
\* or decreases.
NoDecrease ==
  /\ store'.total >= store.total
  /\ \A d \in DOMAIN store.daily :
       d \in DOMAIN store'.daily /\ store'.daily[d] >= store.daily[d]
  /\ \A l \in DOMAIN store.social :
       l \in DOMAIN store'.social /\ store'.social[l] >= store.social[l]

\* C19: across non-overlapping initializeStats, recordDownload and read
\* calls, whatever fails in the backend, no step decreases the total or
\* removes or decreases a bucket.
C19_Monotonic == [][NoDecrease]_vars

\* The same while no backend operation has failed.
C19_MonotonicWhenHealthy ==
  [][hist'.outages = 0 => NoDecrease]_vars

\* An initializeStats() - called directly, or run by the lazy construction -
\* one of whose backend operations has thrown.
FailedInit(c) ==
  /\ calls[c].op = "aggInit" \/ (calls[c].op = "write" /\ calls[c].touched)
  /\ calls[c].failed

\* C20: an initializeStats() in which a has or a set fails leaves every
\* field the store already has as it is.
C20_FailedInitPreserves ==
  \A c \in Calls : FailedInit(c) => Preserved(c)

\* What a call has left in the store is what was there when it began.
SameTotal(c) ==
  /\ store.total = calls[c].before.total
  /\ KeyTotal \in store.has <=> KeyTotal \in calls[c].before.has
SameDaily(c) ==
  /\ store.daily = calls[c].before.daily
  /\ KeyDaily \in store.has <=> KeyDaily \in calls[c].before.has
SameSocial(c) ==
  /\ store.social = calls[c].before.social
  /\ KeySocial \in store.has <=> KeySocial \in calls[c].before.has

\* C21 as stated: a StatsStore.recordDownload that returns false because a
\* backend operation failed leaves totalDownloads, dailyStats and
\* socialMediaStats as they were.
C21_FailedRecordWritesNothing ==
  \A c \in Calls :
    ( /\ calls[c].op = "aggRecord" /\ calls[c].pc = "done"
      /\ calls[c].ret = "false" /\ calls[c].failed ) =>
      SameTotal(c) /\ SameDaily(c) /\ SameSocial(c)

\* C21 as amended: a StatsStore.recordDownload returns false exactly when
\* one of its sets failed; it stops there, so the field of that set and the
\* fields after it (in the order totalDownloads, dailyStats,
\* socialMediaStats) are as they were, and the fields before it have been
\* written: the total is one more than the call read, and the bucket of the
\* call's date is there.
C21_FailedRecordStopsAtFailure ==
  \A c \in Calls :
    (calls[c].op = "aggRecord" /\ calls[c].pc = "done") =>
      /\ calls[c].ret = "false" <=> calls[c].at # "none"
      /\ calls[c].at = "set_total" =>
           SameTotal(c) /\ SameDaily(c) /\ SameSocial(c)
      /\ calls[c].at = "set_daily" =>
           /\ store.total = calls[c].rt + 1
           /\ SameDaily(c) /\ SameSocial(c)
      /\ calls[c].at = "set_social" =>
           /\ store.total = calls[c].rt + 1
           /\ calls[c].today \in DOMAIN store.daily
           /\ SameSocial(c)

\* The counter incremented and the bucket of the day not: the set of
\* dailyStats failed, on a store that held counts.
C21_Witness ==
  \E c \in Calls :
    /\ calls[c].op = "aggRecord" /\ calls[c].pc = "done"
    /\ calls[c].ret = "false" /\ calls[c].at = "set_daily"
    /\ calls[c].before.total > 0
    /\ store.total = calls[c].before.total + 1
    /\ SameDaily(c)

\* C22: however recordDownload calls overlap on a store that began at zero,
\* the total is at most the number of calls started, each bucket of
\* dailyStats at most the number of calls started that took its date as
\* their date, and each bucket of socialMediaStats at most the number of
\* calls started with its label.
C22_NeverOverCounts ==
  /\ store.total <= hist.started
  /\ \A d \in DOMAIN store.daily :
       d \in DOMAIN hist.onDate /\ store.daily[d] <= hist.onDate[d]
  /\ \A l \in DOMAIN store.social :
       l \in DOMAIN hist.bySrc /\ store.social[l] <= hist.bySrc[l]

\* Three labelled downloads over two days have finished, two of them
\* overlapping: an increment of the total is lost, and no count is above
\* the number of calls.
C22_Witness ==
  /\ \A c \in Calls : ~Running(c)
  /\ hist.started = 3 /\ hist.recs = 3
  /\ hist.bySrc = [l \in {"tiktok"} |-> 3]
  /\ hist.onDate = [d \in {0, 1} |-> IF d = 0 THEN 2 ELSE 1]
  /\ store.total = 2
  /\ store.daily = [d \in {0, 1} |-> 1]
  /\ store.social = [l \in {"tiktok"} |-> 2]

\* The positions of StatsStore.recordDownload after it has computed today.
DatedPcs == {"get_daily", "set_daily", "get_social", "set_social", "done"}

\* C15: the bucket recordDownload increments, and the bucket
\* getDownloadsToday() reads, is the one of the process-local date.
C15_LocalDateKey ==
  \A c \in Calls :
    /\ (calls[c].op = "aggRecord" /\ calls[c].pc \in DatedPcs) =>
         calls[c].today = LocalToday
    /\ ReadDone(c) =>
         calls[c].acc.downloadsToday =
           IF LocalToday \in DOMAIN store.daily THEN store.daily[LocalToday] ELSE 0

\* The same with the UTC date.
C15_UTCDateKey ==
  \A c \in Calls :
    /\ (calls[c].op = "aggRecord" /\ calls[c].pc \in DatedPcs) =>
         calls[c].today = Today
    /\ ReadDone(c) =>
         calls[c].acc.downloadsToday =
           IF Today \in DOMAIN store.daily THEN store.daily[Today] ELSE 0

TypeOK ==
  /\ health \in {"up", "down"}
  /\ statsStore \in {"undefined", "null", "set"}
  /\ now \in Instants

====
